---- MODULE Spec2Model ----
(***************************************************************************)
(* Model of the NIM schedule-generation client of nim_slack_bot.           *)
(*                                                                         *)
(* The repository ships two variants of the client:                        *)
(*   "simple"   : src/src/nim-service.js          (callNIM)                *)
(*   "services" : src/src/services/nim-service.js (makeRequest)            *)
(* The variable impl says which one is deployed.  One schedule-generation  *)
(* call is followed from generateSchedule() to its return or throw; the    *)
(* two suspension points of the code (the awaited axios post and the       *)
(* awaited delay) are the step boundaries of the model.                    *)
(*                                                                         *)
(* Clock strings "HH:MM" are represented by their minute offset since      *)
(* midnight ("09:00" is 540); delays are in milliseconds.                  *)
(***************************************************************************)
EXTENDS Integers, Sequences, FiniteSets, TLC

\* ---------------------------------------------------------------- bounds
\* largest value of the NIM_MAX_RETRIES environment variable explored
MaxRetriesEnv == 3
\* longest schedule array in a backend reply
MaxItems == 2
\* pieces of an arbitrary command text, and quoted tasks of a formed one
MaxChunks == 3
MaxTasks == 3
\* most quoted tasks of a command of many tasks
MaxCount == 21
\* most blocks of a message body, and most items of a shown schedule
MaxBlocks == 3
MaxShown == 3

\* ------------------------------------------------------- program constants
\* factor of the retry delay, in milliseconds
Base == 1000
\* config.nim.maxRetries default of the simple variant
DefaultRetriesSimple == 2
\* config.nim.maxRetries default of the services variant
DefaultRetriesServices == 3

Impls == {"simple", "services"}

\* ------------------------------------------------------------ JS values
\* an absent property (undefined)
Undefined == "undefined"
\* an absent clock property
NoTime == -1
\* error.response?.status when the error has no response
NoStatus == 0
\* error.code when the error has none
NoCode == "none"

\* JavaScript truthiness of a string-or-undefined property
Falsy(v) == v \in {Undefined, ""}

\* ------------------------------------------------------------- transport
\* errors with which axios.post may reject (429 is left out: both variants
\* classify it like 500)
Statuses == {400, 401, 403, 404, 408, 500, 501}
Errors ==
    {[status |-> s, code |-> NoCode, name |-> "AxiosError"] : s \in Statuses}
    \cup {[status |-> NoStatus, code |-> c, name |-> "AxiosError"] :
            c \in {"ECONNABORTED", "ECONNRESET", NoCode}}

\* the TypeError raised by response.data.choices[0].message.content when the
\* reply envelope has no choices
TypeError == [status |-> NoStatus, code |-> NoCode, name |-> "TypeError"]

\* error.message: the text by which an error is identified to the caller
Message(e) == <<e.name, e.status, e.code>>

\* ---------------------------------------------------------------- replies
\* items of a reply's schedule array
GoodItem == [task |-> "Test task", start_time |-> 540, end_time |-> 600]
Items ==
    { GoodItem,
      [GoodItem EXCEPT !.task = Undefined],
      [GoodItem EXCEPT !.start_time = NoTime],
      [GoodItem EXCEPT !.end_time = NoTime] }

ItemSeqs == UNION {[1..n -> Items] : n \in 0..MaxItems}

\* message content of a reply: text that is not JSON, JSON null, a JSON
\* object without a schedule property, with a schedule that is no array, or
\* with a schedule array; fence says how the text is wrapped: not at all,
\* in ```json ... ```, in bare ``` ... ```, or in a fence with another info
\* string such as ```js ... ``` or ```JSON ... ```
Shapes == {"notjson", "null", "noschedule", "nonarray", "array"}
Fences == {"none", "json"}
FenceKinds == {"none", "json", "bare", "other"}
Contents ==
    {[fence |-> f, shape |-> s, items |-> <<>>] :
        f \in Fences, s \in Shapes \ {"array"}}
    \cup {[fence |-> f, shape |-> "array", items |-> its] :
        f \in Fences, its \in ItemSeqs}

NoContent == [fence |-> "none", shape |-> "none", items |-> <<>>]

\* a task label that itself contains a ``` sequence (written <ticks> here),
\* and what is left of it when every ``` is removed
TickLabel == "Fix <ticks> rendering"
TickLabelStripped == "Fix  rendering"
TickItem == [GoodItem EXCEPT !.task = TickLabel]

\* a complete item from 20:00 to 21:00, after the end of every window
LateItem == [GoodItem EXCEPT !.start_time = 1200, !.end_time = 1260]

\* replies with every kind of fence, with a label that contains ``` and
\* with an item outside the requested window
RichItemSeqs ==
    UNION {[1..n -> Items \cup {TickItem, LateItem}] : n \in 0..MaxItems}
RichContents ==
    {[fence |-> f, shape |-> s, items |-> <<>>] :
        f \in FenceKinds, s \in Shapes \ {"array"}}
    \cup {[fence |-> f, shape |-> "array", items |-> its] :
        f \in FenceKinds, its \in RichItemSeqs}

\* HTTP responses: choices = FALSE is an envelope without choices[0]
Responses ==
    {[choices |-> TRUE, content |-> c] : c \in Contents}
    \cup {[choices |-> FALSE, content |-> NoContent]}

RichResponses == {[choices |-> TRUE, content |-> c] : c \in RichContents}

NoResponse == [choices |-> FALSE, content |-> [fence |-> "none", shape |-> "unset", items |-> <<>>]]

\* -------------------------------------------------------------- requests
\* requested timeframes with the window they denote
Timeframes ==
    { [text |-> "9AM-5PM", start |-> 540, end |-> 1020],
      [text |-> "morning", start |-> 540, end |-> 720] }

NoTimeframe == [text |-> "", start |-> 0, end |-> 0]

\* NIM_MAX_RETRIES: unset (-1) or a non-negative integer
EnvUnset == -1
EnvValues == {EnvUnset} \cup (0..MaxRetriesEnv)

VARIABLES
    impl,       \* which variant of the client is deployed
    env,        \* process.env.NIM_MAX_RETRIES
    maxRetries, \* this.maxRetries
    pc,         \* position of the schedule-generation call
    timeframe,  \* timeframe argument of generateSchedule
    attempt,    \* callNIM's attempt / makeRequest's retryCount
    httpCalls,  \* number of axios post calls issued by this call
    delays,     \* delays awaited so far, in order
    errors,     \* rejections of the posts so far, in order
    verdicts,   \* what the catch block decided for each rejection
    response,   \* the response with which the last post resolved
    result,     \* value returned or error thrown by generateSchedule
    text,       \* command.text of the /schedule command
    cmd,        \* what the /schedule handler made of the command
    calls,      \* the schedule-generation calls that run concurrently
    message,    \* the schedule message in the channel and the clicks on it
    chat,       \* what the /schedule handler has posted to the channel
    db          \* the transaction of saveSchedule

\* the configuration, one generateSchedule call, the command
confVars == <<impl, env, maxRetries>>
clientVars == <<pc, timeframe, attempt, httpCalls, delays, errors, verdicts,
                response, result>>
cmdVars == <<text, cmd>>
\* the variables of the other parts of the program
others == <<calls, message, chat, db>>

vars == <<impl, env, maxRetries, pc, timeframe, attempt, httpCalls, delays,
          errors, verdicts, response, result, text, cmd, calls, message,
          chat, db>>

NoResult == [kind |-> "none", items |-> <<>>, total_tasks |-> 0,
             total_duration |-> 0, diagnostic |-> "", message |-> <<>>]

\* ------------------------------------------------------------ configuration
\* parseInt(process.env.NIM_MAX_RETRIES) || default
loadMaxRetries(i, e) ==
    IF e = EnvUnset \/ e = 0
    THEN (IF i = "simple" THEN DefaultRetriesSimple ELSE DefaultRetriesServices)
    ELSE e

\* --------------------------------------------------------------- retrying
\* default value of callNIM's attempt / makeRequest's retryCount
FirstAttempt(i) == IF i = "simple" THEN 1 ELSE 0

RECURSIVE Pow2(_)
Pow2(n) == IF n <= 0 THEN 1 ELSE 2 * Pow2(n - 1)

\* callNIM_isRetryableError without the timeout case
callNIM_isRetryableError_NoTimeout(e) ==
    \/ (e.status # NoStatus /\ e.status >= 500)
    \/ e.status = 429

\* isRetryableError of the simple variant
callNIM_isRetryableError(e) ==
    \/ e.code = "ECONNABORTED"
    \/ (e.status # NoStatus /\ e.status >= 500)
    \/ e.status = 429

\* isRetryableError of the services variant
makeRequest_isRetryableError(e) ==
    \/ e.status \in {408, 429, 500, 502, 503, 504}
    \/ e.code = "ECONNRESET"

\* this.isRetryableError(error) of the deployed variant
isRetryableError(i, e) ==
    IF i = "simple" THEN callNIM_isRetryableError(e)
    ELSE makeRequest_isRetryableError(e)

\* HasBudget with the budget test off by one
HasBudget_OffByOne(i, a, max) ==
    IF i = "simple" THEN a <= max + 1 ELSE a <= max

\* the budget test of the catch block
HasBudget(i, a, max) ==
    IF i = "simple" THEN a <= max ELSE a < max
\* ShouldRetry without the classification of the error
ShouldRetry_AnyError(i, a, max, e) ==
    HasBudget(i, a, max)

\* the condition of the catch block
ShouldRetry(i, a, max, e) ==
    HasBudget(i, a, max) /\ isRetryableError(i, e)
\* RetryDelay without progression
RetryDelay_Constant(i, a) ==
    1000

\* the argument of this.delay(...)
RetryDelay(i, a) ==
    IF i = "simple" THEN 1000 * a ELSE Pow2(a) * 1000

\* what the catch block decided; isRetryableError is evaluated only when
\* the budget test passed
Verdict(i, a, max, e) ==
    IF ~HasBudget(i, a, max) THEN "exhausted"
    ELSE IF ShouldRetry(i, a, max, e) THEN "retry" ELSE "fatal"

\* ------------------------------------------------------ response handling
\* what replace(/```json\n?|\n?```/g, '') leaves of a string of the reply
StripTicks(label) == IF label = TickLabel THEN TickLabelStripped ELSE label

\* response.replace(/```json\n?|\n?```/g, '').trim(): every ```json and
\* every ``` is removed, wherever it stands; of a fence with another info
\* string the info string is left in front of the text
StripFences(c) ==
    [c EXCEPT !.fence = IF @ = "other" THEN "residue" ELSE "none",
              !.items = [k \in 1..Len(@) |->
                            [@[k] EXCEPT !.task = StripTicks(@)]]]

\* JSON.parse succeeds
JSONParses(c) == c.fence = "none" /\ c.shape # "notjson"

\* ItemIncomplete without the end_time test
ItemIncomplete_NoEnd(it) ==
    Falsy(it.task) \/ it.start_time = NoTime

\* !item.task || !item.start_time || !item.end_time
ItemIncomplete(it) ==
    Falsy(it.task) \/ it.start_time = NoTime \/ it.end_time = NoTime

\* the parsed reply, returned as it is
BackendSchedule(c) ==
    [kind |-> "schedule", items |-> c.items,
     total_tasks |-> Len(c.items), total_duration |-> 60 * Len(c.items),
     diagnostic |-> "", message |-> <<>>]

createFallbackSchedule ==
    [kind |-> "schedule",
     items |-> << [task |-> "Review and organize your tasks",
                   start_time |-> 540, end_time |-> 1020] >>,
     total_tasks |-> 1, total_duration |-> 480,
     diagnostic |-> "Could not parse AI response - showing fallback schedule",
     message |-> <<>>]

\* the checks inside the try block of parseScheduleResponse pass
ParseAccepts(c) ==
    /\ JSONParses(StripFences(c))
    /\ c.shape = "array"
    /\ \A k \in 1..Len(c.items) : ~ItemIncomplete(StripFences(c).items[k])

parseScheduleResponse(c) ==
    IF ParseAccepts(c) THEN BackendSchedule(StripFences(c))
    ELSE createFallbackSchedule

\* errors raised while the services variant reads the reply
SyntaxError == [status |-> NoStatus, code |-> NoCode, name |-> "SyntaxError"]
FormatError == [status |-> NoStatus, code |-> NoCode,
                name |-> "Invalid schedule format received from NIM"]
\* Thrown without the message of the underlying error
Thrown_NoCause(i, e) ==
    [kind |-> "error", items |-> <<>>, total_tasks |-> 0, total_duration |-> 0,
     diagnostic |-> "",
     message |-> <<(IF i = "simple" THEN "Failed to generate schedule"
                    ELSE "Schedule generation failed"), <<>> >>]

\* the Error thrown by generateSchedule's catch block
Thrown(i, e) ==
    [kind |-> "error", items |-> <<>>, total_tasks |-> 0, total_duration |-> 0,
     diagnostic |-> "",
     message |-> <<(IF i = "simple" THEN "Failed to generate schedule"
                    ELSE "Schedule generation failed"), Message(e)>>]

\* JSON.parse(content) followed by validateScheduleResponse, inside the try
\* block of the services variant's generateSchedule
validateScheduleResponse(c) ==
    IF ~JSONParses(c) THEN Thrown("services", SyntaxError)
    ELSE IF c.shape = "null" THEN Thrown("services", TypeError)
    ELSE IF c.shape # "array" THEN Thrown("services", FormatError)
    ELSE BackendSchedule(c)

\* ------------------------------------------------------------ command text
\* command.text is a sequence of symbols: the double quote, the blank, and
\* words, which are pieces of text without a double quote that neither
\* start nor end with a blank
Quote == "\""
Blank == " "

\* timeframe words by the pattern of validateTimeframe they match
AmPmRanges == {"9AM-5PM", "9am-5pm", "5PM-9AM", "9AM-9AM"}
ClockRanges == {"09:00-17:00", "17:00-09:00", "09:00-09:30", "09:00-10:00",
                "06:00-22:00", "05:00-22:00"}
MixedRanges == {"9:00 AM - 5:00 PM"}
PresetNames == {"morning", "afternoon", "evening", "workday", "business hours"}
PresetSpellings == PresetNames \cup {"MORNING", "Evening", "Business Hours"}
OtherWords == {"invalid", "noon"}
TimeframeWords ==
    AmPmRanges \cup ClockRanges \cup MixedRanges \cup PresetSpellings
    \cup OtherWords

\* words of task strings: descriptions and a parameter group "(...)"
TaskWords == {"Task A", "Task B"}
ParamGroups == {"(high, meeting)"}

Symbols == {Quote, Blank} \cup TimeframeWords \cup TaskWords \cup ParamGroups

\* String.prototype.toLowerCase on a word
toLowerCase(w) ==
    CASE w = "9AM-5PM" -> "9am-5pm"
      [] w = "5PM-9AM" -> "5pm-9am"
      [] w = "9AM-9AM" -> "9am-9am"
      [] w = "9:00 AM - 5:00 PM" -> "9:00 am - 5:00 pm"
      [] w = "MORNING" -> "morning"
      [] w = "Evening" -> "evening"
      [] w = "Business Hours" -> "business hours"
      [] w = "Task A" -> "task a"
      [] w = "Task B" -> "task b"
      [] OTHER -> w

\* quoted task strings of a command, the quotes included
QuotedChunks ==
    { <<Quote, "Task A", Quote>>,
      <<Quote, "Task B", Blank, "(high, meeting)", Quote>>,
      <<Quote, Quote>>,
      <<Quote, Blank, Quote>>,
      <<Quote, Blank, "(high, meeting)", Quote>> }

\* pieces from which arbitrary command texts are put together
Chunks ==
    { <<Quote>>, <<Blank>>, <<"morning">>, <<"9AM-5PM">>,
      <<Quote, "Task A", Quote>>,
      <<Quote, "Task B", Blank, "(high, meeting)", Quote>>,
      <<Quote, Quote>> }

RECURSIVE Concat(_)
Concat(cs) == IF cs = <<>> THEN <<>> ELSE Head(cs) \o Concat(Tail(cs))

\* texts of at most MaxChunks pieces in any order
ChunkTexts ==
    {Concat(cs) : cs \in UNION {[1..n -> Chunks] : n \in 0..MaxChunks}}

\* texts of the documented form: timeframe "task" ... "task"
FormedTexts ==
    {<<tf>> \o Concat([k \in 1..Len(qs) |-> <<Blank>> \o qs[k]]) :
        tf \in TimeframeWords,
        qs \in UNION {[1..n -> QuotedChunks] : n \in 0..MaxTasks}}

Texts == ChunkTexts \cup FormedTexts

\* ---------------------------------------------------------------- parsing
Min(S) == CHOOSE x \in S : \A y \in S : x <= y
Max(S) == CHOOSE x \in S : \A y \in S : x >= y

\* String.prototype.trim: leading and trailing blanks removed
trim(str) ==
    LET inked == {k \in 1..Len(str) : str[k] # Blank}
    IN  IF inked = {} THEN <<>> ELSE SubSeq(str, Min(inked), Max(inked))

\* position of the first double quote at or after p, 0 if there is none
NextQuote(str, p) ==
    LET qs == {k \in p..Len(str) : str[k] = Quote}
    IN  IF qs = {} THEN 0 ELSE Min(qs)

\* text.match(/([^"]+)|"([^"]*)"/g) from position p on: a run of symbols
\* other than the quote, taken as long as it goes, or a quote with the next
\* quote and what stands between; a quote without a partner is skipped
RECURSIVE match(_, _)
match(str, p) ==
    IF p > Len(str) THEN <<>>
    ELSE IF str[p] # Quote
    THEN LET q == NextQuote(str, p)
             e == IF q = 0 THEN Len(str) ELSE q - 1
         IN  <<SubSeq(str, p, e)>> \o match(str, e + 1)
    ELSE LET q == NextQuote(str, p + 1)
         IN  IF q = 0 THEN match(str, p + 1)
             ELSE <<SubSeq(str, p, q)>> \o match(str, q + 1)

\* part.startsWith('"') && part.endsWith('"')
IsQuoted(part) == part # <<>> /\ part[1] = Quote /\ part[Len(part)] = Quote

\* part.slice(1, -1)
Unquote(part) == SubSeq(part, 2, Len(part) - 1)

taskStrings_Unfiltered(parts) ==
    [k \in 1..Len(Tail(parts)) |-> Unquote(Tail(parts)[k])]

\* parts.slice(1).filter(quoted).map(part => part.slice(1, -1))
taskStrings(parts) ==
    LET quoted == SelectSeq(Tail(parts), IsQuoted)
    IN  [k \in 1..Len(quoted) |-> Unquote(quoted[k])]

\* match[2].split(',').map(p => p.trim().toLowerCase())
params(group) ==
    CASE group = "(high, meeting)" -> <<"high", "meeting">>
      [] OTHER -> <<>>

validPriorities == {"high", "medium", "low"}
validTypes == {"general", "meeting", "learning"}

\* params.forEach: the last parameter of the vocabulary wins, else the default
lastOf(ps, vocabulary, default) ==
    LET ks == {k \in 1..Len(ps) : ps[k] \in vocabulary}
    IN  IF ks = {} THEN default ELSE ps[Max(ks)]

\* parseTask: /^(.+?)\s*\(([^)]+)\)$/ matches when the string ends with a
\* parameter group and something stands before it.  The id (and, in the
\* services variant, preferred_time) of the task is not modelled.
parseTask(taskStr) ==
    IF Len(taskStr) >= 2 /\ taskStr[Len(taskStr)] \in ParamGroups
    THEN [description |-> trim(SubSeq(taskStr, 1, Len(taskStr) - 1)),
          priority |-> lastOf(params(taskStr[Len(taskStr)]), validPriorities, "medium"),
          type |-> lastOf(params(taskStr[Len(taskStr)]), validTypes, "general")]
    ELSE [description |-> trim(taskStr), priority |-> "medium", type |-> "general"]

parseTasks_Reversed(strs) ==
    [k \in 1..Len(strs) |-> parseTask(strs[Len(strs) + 1 - k])]

parseTasks(strs) == [k \in 1..Len(strs) |-> parseTask(strs[k])]

\* ----------------------------------------------------------------- errors
ErrEmptyInput == "Please provide a timeframe and tasks"
ErrInvalidFormat == "Invalid format"
ErrNoTasks == "Please provide at least one task in quotes"
ErrNoValidTasks == "No valid tasks found"
ErrNoTimeframe == "Please provide a timeframe"
ErrNoTask == "Please provide at least one task"
ErrTimeframeRequired == "Timeframe is required"
ErrTimeframeFormat == "Invalid timeframe format"
ErrOrder == "End time must be after start time"
ErrTooShort == "Schedule duration must be at least 1 hour"
ErrTooLong == "Schedule duration cannot exceed 16 hours"
ErrTooManyTasks == "Maximum 20 tasks allowed per schedule"
ErrDescription == "Task description is required"
NoError == ""

\* ----------------------------------------------------- timeframe validation
\* a string is one of the words of a set
IsWordOf(str, words) == Len(str) = 1 /\ str[1] \in words

lower_Identity(str) == str

lower(str) == [k \in 1..Len(str) |-> toLowerCase(str[k])]

\* the three time range patterns; the first and the third ignore case and
\* the second has no letters
timeRangePatterns == <<AmPmRanges, ClockRanges, MixedRanges>>

MatchesPattern(str, k) ==
    \E w \in timeRangePatterns[k] : lower(str) = <<toLowerCase(w)>>

\* validateTimeframe of utils.js: the error message, NoError if valid
utils_validateTimeframe(tf) ==
    IF tf = <<>> \/ trim(tf) = <<>> THEN ErrTimeframeRequired
    ELSE IF IsWordOf(trim(lower(tf)), PresetNames) THEN NoError
    ELSE IF \E k \in 1..3 : MatchesPattern(trim(lower(tf)), k) THEN NoError
    ELSE ErrTimeframeFormat

Null == [startTime |-> NoTime, endTime |-> NoTime]

\* parseTimeMatch of validators.js returns null for every match
parseTimeMatch == Null

\* clock times of the presets as <<hours, minutes>>
presets ==
    [n \in PresetNames |->
        CASE n = "morning" -> [start |-> <<9, 0>>, end |-> <<12, 0>>]
          [] n = "afternoon" -> [start |-> <<13, 0>>, end |-> <<17, 0>>]
          [] n = "evening" -> [start |-> <<18, 0>>, end |-> <<21, 0>>]
          [] n = "workday" -> [start |-> <<9, 0>>, end |-> <<17, 0>>]
          [] n = "business hours" -> [start |-> <<9, 0>>, end |-> <<17, 0>>]]

timeToMinutes(t) == t[1] * 60 + t[2]

normalizeTimeframe(tf) ==
    IF \E k \in 1..3 : MatchesPattern(tf, k) THEN parseTimeMatch
    ELSE IF IsWordOf(lower(tf), PresetNames)
    THEN [startTime |-> timeToMinutes(presets[lower(tf)[1]].start),
          endTime |-> timeToMinutes(presets[lower(tf)[1]].end)]
    ELSE Null

MinDuration == 60
MaxDuration == 960

\* validateTimeframe of validators.js
validators_validateTimeframe(tf) ==
    LET normalized == normalizeTimeframe(trim(tf))
        duration == normalized.endTime - normalized.startTime
        invalid(e) == [isValid |-> FALSE, error |-> e, normalized |-> Null]
    IN  IF tf = <<>> THEN invalid(ErrTimeframeRequired)
        ELSE IF normalized = Null THEN invalid(ErrTimeframeFormat)
        ELSE IF normalized.startTime >= normalized.endTime THEN invalid(ErrOrder)
        ELSE IF duration < MinDuration THEN invalid(ErrTooShort)
        ELSE IF duration > MaxDuration THEN invalid(ErrTooLong)
        ELSE [isValid |-> TRUE, error |-> NoError, normalized |-> normalized]

\* ---------------------------------------------------------- task validation
MaxTasksPerSchedule == 20

\* validateTask: the description must not be empty or blank.  The words of
\* the model are shorter than 200 characters and parseTask yields only
\* priorities and types of the vocabulary.
validateTask(task) ==
    IF task.description = <<>> \/ trim(task.description) = <<>>
    THEN ErrDescription
    ELSE IF task.priority \notin validPriorities THEN "Priority must be one of"
    ELSE IF task.type \notin validTypes THEN "Type must be one of"
    ELSE NoError

\* validateTasks: the error and the position i + 1 of the task it names
validateTasks(tasks) ==
    LET bad == {k \in 1..Len(tasks) : validateTask(tasks[k]) # NoError}
    IN  IF tasks = <<>> THEN [error |-> "At least one task is required", task |-> 0]
        ELSE IF Len(tasks) > MaxTasksPerSchedule THEN [error |-> ErrTooManyTasks, task |-> 0]
        ELSE IF bad # {} THEN [error |-> validateTask(tasks[Min(bad)]), task |-> Min(bad)]
        ELSE [error |-> NoError, task |-> 0]

\* validateInput of utils.js, the error message: part_001 imports it and
\* never calls it
MaxTasksInput == 15
ErrTooManyInput == "Maximum 15 tasks allowed per schedule"
validateInput(input) ==
    IF input.error # NoError THEN input.error
    ELSE IF input.timeframe = <<>> THEN ErrTimeframeRequired
    ELSE IF input.tasks = <<>> THEN "At least one task is required"
    ELSE IF Len(input.tasks) > MaxTasksInput THEN ErrTooManyInput
    ELSE NoError

\* ------------------------------------------------------- /schedule command
\* parseScheduleCommand of utils.js: { error } or { timeframe, tasks }
utils_parseScheduleCommand(str) ==
    LET parts == match(str, 1)
        strs == taskStrings(parts)
        tf == trim(parts[1])
        failed(e) == [error |-> e, timeframe |-> <<>>, tasks |-> <<>>]
    IN  IF str = <<>> \/ trim(str) = <<>> THEN failed(ErrEmptyInput)
        ELSE IF parts = <<>> THEN failed(ErrInvalidFormat)
        ELSE IF strs = <<>> THEN failed(ErrNoTasks)
        ELSE IF parseTasks(strs) = <<>> THEN failed(ErrNoValidTasks)
        ELSE IF utils_validateTimeframe(tf) # NoError
        THEN failed(utils_validateTimeframe(tf))
        ELSE [error |-> NoError, timeframe |-> tf, tasks |-> parseTasks(strs)]

\* parseScheduleCommand of validators.js: { timeframe, tasks }, where a
\* null timeframe is the empty string (the handler tests !timeframe only)
validators_parseScheduleCommand(str) ==
    LET parts == match(str, 1)
    IN  IF str = <<>> \/ trim(str) = <<>> \/ parts = <<>>
        THEN [timeframe |-> <<>>, tasks |-> <<>>]
        ELSE [timeframe |-> trim(parts[1]),
              tasks |-> parseTasks(taskStrings(parts))]

\* outcome of the handler: status "rejected" with the error sent (and the
\* position of the task it names, 0 if none), "help" with the help message
\* sent, or "accepted" with what is handed to generateSchedule
NoCmd == [status |-> "none", error |-> NoError, task |-> 0,
          timeframe |-> <<>>, tasks |-> <<>>, normalized |-> Null]
Rejected(e, k) == [NoCmd EXCEPT !.status = "rejected", !.error = e, !.task = k]
Accepted(tf, tasks, n) ==
    [NoCmd EXCEPT !.status = "accepted", !.timeframe = tf, !.tasks = tasks,
                  !.normalized = n]

\* app.command('/schedule') up to the call of generateSchedule
scheduleCommand(str) ==
    LET parsed == utils_parseScheduleCommand(str)
    IN  IF parsed.error # NoError THEN Rejected(parsed.error, 0)
        ELSE IF parsed.timeframe = <<>> \/ parsed.tasks = <<>>
        THEN [NoCmd EXCEPT !.status = "help"]
        ELSE Accepted(parsed.timeframe, parsed.tasks, Null)

\* handleScheduleCommand up to the call of generateSchedule
handleScheduleCommand(str) ==
    LET parsedInput == validators_parseScheduleCommand(str)
        timeframeValidation == validators_validateTimeframe(parsedInput.timeframe)
        tasksValidation == validateTasks(parsedInput.tasks)
    IN  IF parsedInput.timeframe = <<>> THEN Rejected(ErrNoTimeframe, 0)
        ELSE IF parsedInput.tasks = <<>> THEN Rejected(ErrNoTask, 0)
        ELSE IF ~timeframeValidation.isValid
        THEN Rejected(timeframeValidation.error, 0)
        ELSE IF tasksValidation.error # NoError
        THEN Rejected(tasksValidation.error, tasksValidation.task)
        ELSE Accepted(parsedInput.timeframe, parsedInput.tasks,
                      timeframeValidation.normalized)

\* ----------------------------------------------------------------- state
TypeOK ==
    /\ impl \in Impls
    /\ env \in EnvValues
    /\ maxRetries \in Nat
    /\ pc \in {"idle", "posting", "delaying", "returned", "thrown"}
    /\ timeframe \in Timeframes \cup {NoTimeframe}
    /\ attempt \in Nat
    /\ httpCalls \in Nat
    /\ delays \in Seq(Nat)
    /\ errors \in Seq(Errors \cup {TypeError})
    /\ verdicts \in Seq({"retry", "fatal", "exhausted"})
    /\ response \in Responses \cup RichResponses \cup {NoResponse}
    /\ result.kind \in {"none", "schedule", "error"}
    /\ text \in Seq(Symbols)
    /\ cmd.status \in {"none", "rejected", "help", "accepted"}
    /\ message.updates \in Nat

\* --------------------------------------------------- concurrent calls
\* the callers that use the one exported client at the same time
Callers == {1, 2}

\* what the backend does with one attempt: it replies, or the post is
\* rejected with a retryable or with a fatal error
Replied == [status |-> 200, code |-> NoCode, name |-> "OK"]
Outcomes == {Replied} \cup {e \in Errors : e.status \in {400, 500}}

\* retry budget of the client in the runs with concurrent calls
ConcRetries == 2

\* the outcomes of the successive attempts of one call
Scripts == [1..(ConcRetries + 1) -> Outcomes]

NoCall == [pc |-> "idle", attempt |-> 0, httpCalls |-> 0, delays |-> <<>>,
           script |-> <<>>, overlapped |-> FALSE]
NoCalls == [c \in Callers |-> NoCall]

\* attemptOf if the attempt counter were a field of the shared client
attemptOf_Shared(cs, c) == Max({cs[d].attempt : d \in Callers})

\* the attempt parameter of the call of caller c
attemptOf(cs, c) == cs[c].attempt

\* ------------------------------------------------------ schedule message
\* A block of a message: its type, the action_id and the value of its
\* button ("none" without a button), the number of lines of its text (0
\* without text), whether the first line is wrapped in ~ ~, and the
\* schedule item the text names (NoItem if none).  The button value of
\* item k is written k for JSON.stringify({ task_id, index: k, ... }).
Completed == -1
NoItem == -2
NoValue == -3

TaskBlock(k, n) ==
    [type |-> "section", action |-> "complete_task", value |-> k,
     lines |-> n, struck |-> FALSE, item |-> k]

\* the context block pushed after an item that has a reasoning
ReasoningBlock ==
    [type |-> "context", action |-> "none", value |-> NoValue,
     lines |-> 1, struck |-> FALSE, item |-> NoItem]

\* accessory and text of a block after its task was completed:
\* replace(/^(.*?)(\n.*?)$/, '~$1~$2') changes a text of exactly two lines
completeBlock(b) ==
    [b EXCEPT !.action = "task_completed", !.value = Completed,
              !.struck = IF b.lines = 2 THEN TRUE ELSE @]

IsTaskButton(b) == b.type = "section" /\ b.action = "complete_task"

\* the loop of markTaskComplete: index of the block it updates, 0 if none
firstMatch(blocks, v) ==
    LET ms == {i \in 1..Len(blocks) : IsTaskButton(blocks[i]) /\ blocks[i].value = v}
    IN  IF ms = {} THEN 0 ELSE Min(ms)

\* the loop of updateMessageWithTaskCompletion: the block at which
\* blockIndex, counted over the blocks that still have a complete_task
\* button, equals taskIndex; 0 if none
indexMatch(blocks, taskIndex) ==
    LET ms == {i \in 1..Len(blocks) :
                  /\ IsTaskButton(blocks[i])
                  /\ Cardinality({j \in 1..(i - 1) : IsTaskButton(blocks[j])}) = taskIndex}
    IN  IF ms = {} THEN 0 ELSE Min(ms)

\* the blocks of the messages the handlers receive in body.message
BodyBlocks ==
    { TaskBlock(0, 2), TaskBlock(1, 2), TaskBlock(0, 3), TaskBlock(1, 1),
      completeBlock(TaskBlock(0, 2)), ReasoningBlock }
Bodies == UNION {[1..n -> BodyBlocks] : n \in 0..MaxBlocks}
ClickValues == {0, 1, 2}

\* buildScheduleBlocks / createScheduleMessage: the blocks of the items of
\* a schedule of n items, item k with a reasoning when k \in rs
RECURSIVE itemBlocks(_, _, _)
itemBlocks(k, n, rs) ==
    IF k >= n THEN <<>>
    ELSE <<TaskBlock(k, 2)>>
         \o (IF k \in rs THEN <<ReasoningBlock>> ELSE <<>>)
         \o itemBlocks(k + 1, n, rs)

NoClick == -4
NoMessage == [blocks |-> <<>>, before |-> <<>>, clicked |-> NoClick,
              updates |-> 0, sent |-> FALSE, done |-> {}, thrown |-> FALSE]

\* no generateSchedule call has been made
ClientIdle ==
    /\ pc = "idle"
    /\ timeframe = NoTimeframe
    /\ attempt = 0
    /\ httpCalls = 0
    /\ delays = <<>>
    /\ errors = <<>>
    /\ verdicts = <<>>
    /\ response = NoResponse
    /\ result = NoResult

\* the other parts of the program are at rest
\* The channel as the /schedule handler leaves it: the position of the
\* handler, the state of the 'thinking' message, the schedule, error and
\* help messages delivered, and whether the handler ended by throwing.
NoChat == [pc |-> "idle", placeholder |-> "none", schedules |-> 0,
           errorsSent |-> 0, helps |-> 0, thrown |-> FALSE]

\* The transaction of saveSchedule: the position in the function, the
\* queries issued in order, the rows inserted in the open transaction, the
\* rows committed, the number of client.release() calls, the first error
\* raised inside the try block and the error the caller receives.
NoErr == 0
NoDb == [pc |-> "idle", queries |-> <<>>, pending |-> {}, committed |-> {},
         released |-> 0, failure |-> NoErr, thrown |-> NoErr, tasks |-> 0,
         saved |-> 0]

OthersIdle ==
    /\ calls = NoCalls
    /\ message = NoMessage
    /\ chat = NoChat
    /\ db = NoDb

Init ==
    /\ impl \in Impls
    /\ env \in EnvValues
    /\ maxRetries = loadMaxRetries(impl, env)
    /\ ClientIdle
    /\ text = <<>>
    /\ cmd = NoCmd
    /\ OthersIdle

\* generateSchedule(tf, tasks) up to the first awaited post
GenerateSchedule(tf) ==
    /\ pc \in {"idle", "returned", "thrown"}
    /\ timeframe' = tf
    /\ attempt' = FirstAttempt(impl)
    /\ httpCalls' = 1
    /\ delays' = <<>>
    /\ errors' = <<>>
    /\ verdicts' = <<>>
    /\ response' = NoResponse
    /\ result' = NoResult
    /\ pc' = "posting"
    /\ UNCHANGED <<others, text, cmd, impl, env, maxRetries>>

\* Catch with a delay awaited before the error is rethrown as well
Catch_DelayBeforeThrow(e) ==
    /\ errors' = Append(errors, e)
    /\ verdicts' = Append(verdicts, Verdict(impl, attempt, maxRetries, e))
    /\ delays' = Append(delays, RetryDelay(impl, attempt))
    /\ IF ShouldRetry(impl, attempt, maxRetries, e)
       THEN /\ pc' = "delaying"
            /\ result' = result
       ELSE /\ pc' = "thrown"
            /\ result' = Thrown(impl, e)

\* the catch block of callNIM / makeRequest, entered with error e
Catch(e) ==
    /\ errors' = Append(errors, e)
    /\ verdicts' = Append(verdicts, Verdict(impl, attempt, maxRetries, e))
    /\ IF ShouldRetry(impl, attempt, maxRetries, e)
       THEN /\ delays' = Append(delays, RetryDelay(impl, attempt))
            /\ pc' = "delaying"
            /\ result' = result
       ELSE /\ delays' = delays
            /\ pc' = "thrown"
            /\ result' = Thrown(impl, e)

\* the awaited post rejects with e
PostRejects(e) ==
    /\ pc = "posting"
    /\ Catch(e)
    /\ UNCHANGED <<others, text, cmd, impl, env, maxRetries, timeframe, attempt, httpCalls, response>>

\* the awaited delay elapses: the recursive call issues the next post
DelayElapses ==
    /\ pc = "delaying"
    /\ attempt' = attempt + 1
    /\ httpCalls' = httpCalls + 1
    /\ pc' = "posting"
    /\ UNCHANGED <<others, text, cmd, impl, env, maxRetries, timeframe, delays, errors, verdicts,
                   response, result>>

\* the awaited post resolves with response r
PostResolves(r) ==
    /\ pc = "posting"
    /\ response' = r
    /\ IF impl = "simple"
       THEN IF r.choices
            THEN /\ result' = parseScheduleResponse(r.content)
                 /\ pc' = "returned"
                 /\ UNCHANGED <<delays, errors, verdicts>>
            ELSE Catch(TypeError)
       ELSE /\ result' = (IF r.choices THEN validateScheduleResponse(r.content)
                          ELSE Thrown("services", TypeError))
            /\ pc' = (IF result'.kind = "schedule" THEN "returned" ELSE "thrown")
            /\ UNCHANGED <<delays, errors, verdicts>>
    /\ UNCHANGED <<others, text, cmd, impl, env, maxRetries, timeframe, attempt, httpCalls>>

Next ==
    \/ \E tf \in Timeframes : GenerateSchedule(tf)
    \/ \E e \in Errors : PostRejects(e)
    \/ \E r \in Responses : PostResolves(r)
    \/ DelayElapses

Spec == Init /\ [][Next]_vars

\* the /schedule handler receives the command and answers it or goes on to
\* generateSchedule
ScheduleCommand ==
    /\ cmd.status = "none"
    /\ cmd' = IF impl = "simple" THEN scheduleCommand(text)
              ELSE handleScheduleCommand(text)
    /\ UNCHANGED <<others, text, impl, env, maxRetries, pc, timeframe, attempt,
                   httpCalls, delays, errors, verdicts, response, result>>

\* the command handling alone, over the command texts
CmdInit ==
    /\ impl \in Impls
    /\ env = EnvUnset
    /\ maxRetries = loadMaxRetries(impl, env)
    /\ ClientIdle
    /\ text \in Texts
    /\ cmd = NoCmd
    /\ OthersIdle

CmdNext == ScheduleCommand

CmdSpec == CmdInit /\ [][CmdNext]_vars

\* the handler goes on to nimService.generateSchedule(timeframe, tasks)
\* with the timeframe of the accepted command
CallBackend ==
    /\ cmd.status = "accepted"
    /\ pc = "idle"
    /\ \E tf \in Timeframes : <<tf.text>> = cmd.timeframe /\ GenerateSchedule(tf)

\* the handler from the command to the end of the backend call, over the
\* texts put together from pieces, one good reply and two kinds of failure
HandlerErrors == {e \in Errors : e.status \in {400, 500}}
HandlerResponses ==
    {[choices |-> TRUE,
      content |-> [fence |-> "none", shape |-> "array", items |-> <<GoodItem>>]]}

HandlerInit ==
    /\ impl \in Impls
    /\ env = EnvUnset
    /\ maxRetries = loadMaxRetries(impl, env)
    /\ ClientIdle
    /\ text \in ChunkTexts
    /\ cmd = NoCmd
    /\ OthersIdle

HandlerNext ==
    \/ ScheduleCommand
    \/ CallBackend
    \/ \E e \in HandlerErrors : PostRejects(e)
    \/ \E r \in HandlerResponses : PostResolves(r)
    \/ DelayElapses

HandlerSpec == HandlerInit /\ [][HandlerNext]_vars

\* commands of a timeframe and n times the same quoted task
CountTexts ==
    {<<tf.text>> \o Concat([k \in 1..n |-> <<Blank, Quote, "Task A", Quote>>]) :
        tf \in Timeframes, n \in 0..MaxCount}

CountInit ==
    /\ impl \in Impls
    /\ env = EnvUnset
    /\ maxRetries = loadMaxRetries(impl, env)
    /\ ClientIdle
    /\ text \in CountTexts
    /\ cmd = NoCmd
    /\ OthersIdle

\* the handler over commands of up to MaxCount tasks
CountSpec == CountInit /\ [][HandlerNext]_vars

\* caller c calls generateSchedule: the first post is issued
StartCall(c) ==
    /\ calls[c].pc = "idle"
    /\ calls' = [calls EXCEPT ![c].pc = "posting",
                              ![c].attempt = FirstAttempt(impl),
                              ![c].httpCalls = 1,
                              ![c].overlapped =
                                  \E d \in Callers \ {c} :
                                      calls[d].pc \in {"posting", "delaying"}]
    /\ UNCHANGED <<confVars, clientVars, cmdVars, message, chat, db>>

\* the post of caller c is rejected: the catch block of its call
CallRejects(c) ==
    /\ calls[c].pc = "posting"
    /\ calls[c].script[calls[c].httpCalls] # Replied
    /\ LET e == calls[c].script[calls[c].httpCalls]
           a == attemptOf(calls, c)
       IN  calls' = IF ShouldRetry(impl, a, maxRetries, e)
                    THEN [calls EXCEPT ![c].pc = "delaying",
                                       ![c].delays = Append(@, RetryDelay(impl, a))]
                    ELSE [calls EXCEPT ![c].pc = "thrown"]
    /\ UNCHANGED <<confVars, clientVars, cmdVars, message, chat, db>>

\* the delay of caller c elapses: the recursive call issues the next post
CallDelayElapses(c) ==
    /\ calls[c].pc = "delaying"
    /\ calls' = [calls EXCEPT ![c].pc = "posting",
                              ![c].attempt = attemptOf(calls, c) + 1,
                              ![c].httpCalls = @ + 1]
    /\ UNCHANGED <<confVars, clientVars, cmdVars, message, chat, db>>

\* the post of caller c resolves
CallResolves(c) ==
    /\ calls[c].pc = "posting"
    /\ calls[c].script[calls[c].httpCalls] = Replied
    /\ calls' = [calls EXCEPT ![c].pc = "returned"]
    /\ UNCHANGED <<confVars, clientVars, cmdVars, message, chat, db>>

\* two calls on the one client, each with the outcomes of its attempts
ConcInit ==
    /\ impl \in Impls
    /\ env = ConcRetries
    /\ maxRetries = loadMaxRetries(impl, env)
    /\ ClientIdle
    /\ text = <<>>
    /\ cmd = NoCmd
    /\ \E sc \in [Callers -> Scripts] :
          calls = [c \in Callers |-> [NoCall EXCEPT !.script = sc[c]]]
    /\ message = NoMessage
    /\ chat = NoChat
    /\ db = NoDb

ConcNext ==
    \E c \in Callers :
        \/ StartCall(c)
        \/ CallRejects(c)
        \/ CallDelayElapses(c)
        \/ CallResolves(c)

ConcSpec == ConcInit /\ [][ConcNext]_vars

\* markTaskComplete(client, body, taskInfo) on the message m shown, with
\* the value v of the clicked action; chat.update resolves (ok) or rejects,
\* and the rejection is caught and logged
markTaskComplete(m, v, ok) ==
    LET blocks == m.blocks
        i == firstMatch(blocks, v)
        updated == i # 0
        new == IF updated THEN [blocks EXCEPT ![i] = completeBlock(@)] ELSE blocks
    IN  [m EXCEPT !.before = blocks,
                  !.clicked = v,
                  !.sent = updated,
                  !.updates = IF updated THEN @ + 1 ELSE @,
                  !.blocks = IF updated /\ ok THEN new ELSE blocks,
                  !.done = IF updated /\ ok THEN @ \cup {v} ELSE @,
                  !.thrown = FALSE]

\* handleTaskCompletion on the message m shown, with the index of the
\* clicked value: updateTaskStatus resolves (dbOk) or rejects, and a
\* rejection ends the handler with the failure notice; then
\* updateMessageWithTaskCompletion sends chat.update whether or not a block
\* was found
handleTaskCompletion(m, index, dbOk, ok) ==
    LET blocks == m.blocks
        i == indexMatch(blocks, index)
        new == IF i # 0 THEN [blocks EXCEPT ![i] = completeBlock(@)] ELSE blocks
    IN  IF ~dbOk THEN [m EXCEPT !.before = blocks, !.clicked = index,
                                !.sent = FALSE, !.thrown = FALSE]
        ELSE [m EXCEPT !.before = blocks,
                       !.clicked = index,
                       !.sent = TRUE,
                       !.updates = @ + 1,
                       !.blocks = IF ok THEN new ELSE blocks,
                       !.done = IF ok THEN @ \cup {index} ELSE @,
                       !.thrown = FALSE]

\* most chat.update calls of one run
MaxUpdates == 4

MarkTaskComplete(v, ok) ==
    /\ message.updates < MaxUpdates
    /\ message' = markTaskComplete(message, v, ok)
    /\ UNCHANGED <<confVars, clientVars, cmdVars, calls, chat, db>>

\* the user clicks the Complete button of item k of the message shown
CompleteTask(k, dbOk, ok) ==
    /\ message.updates < MaxUpdates
    /\ \E i \in 1..Len(message.blocks) :
          IsTaskButton(message.blocks[i]) /\ message.blocks[i].value = k
    /\ message' = IF impl = "simple" THEN markTaskComplete(message, k, ok)
                  ELSE handleTaskCompletion(message, k, dbOk, ok)
    /\ UNCHANGED <<confVars, clientVars, cmdVars, calls, chat, db>>

\* clicks on the schedule message of a schedule of up to MaxShown items
CompletionInit ==
    /\ impl \in Impls
    /\ env = EnvUnset
    /\ maxRetries = loadMaxRetries(impl, env)
    /\ ClientIdle
    /\ text = <<>>
    /\ cmd = NoCmd
    /\ calls = NoCalls
    /\ chat = NoChat
    /\ db = NoDb
    /\ \E n \in 1..MaxShown : \E rs \in SUBSET (0..(n - 1)) :
          message = [NoMessage EXCEPT !.blocks = itemBlocks(0, n, rs)]

CompletionNext ==
    \E k \in 0..(MaxShown - 1), dbOk \in BOOLEAN, ok \in BOOLEAN :
        CompleteTask(k, dbOk, ok)

CompletionSpec == CompletionInit /\ [][CompletionNext]_vars

\* ------------------------------------------- the answers of the handler
\* The /schedule handler from the command to its last Slack call.  Every
\* Slack call, and saveSchedule, resolves (ok) or rejects.
answerRest == <<confVars, clientVars, cmdVars, calls, message, db>>

\* the answer to a command that is not accepted: sendErrorMessage, which
\* logs a rejected post, in the services handler; say(error) or say(help),
\* whose rejection reaches the outer catch, in the simple one
Answer(ok) ==
    /\ chat.pc = "start"
    /\ cmd.status \in {"rejected", "help"}
    /\ chat' = IF ok
               THEN IF cmd.status = "help"
                    THEN [chat EXCEPT !.pc = "done", !.helps = @ + 1]
                    ELSE [chat EXCEPT !.pc = "done", !.errorsSent = @ + 1]
               ELSE [chat EXCEPT !.pc = IF impl = "simple" THEN "outer" ELSE "done"]
    /\ UNCHANGED answerRest

\* say('... creating your optimized schedule...')
SayThinking(ok) ==
    /\ chat.pc = "start"
    /\ cmd.status = "accepted"
    /\ chat' = IF ok THEN [chat EXCEPT !.pc = "generate", !.placeholder = "posted"]
               ELSE [chat EXCEPT !.pc = "outer"]
    /\ UNCHANGED answerRest

\* await nimService.generateSchedule(timeframe, tasks)
Generate ==
    /\ chat.pc = "generate"
    /\ CallBackend

\* generateSchedule has returned or thrown
GenerateEnds ==
    /\ chat.pc = "generate"
    /\ pc \in {"returned", "thrown"}
    /\ chat' = [chat EXCEPT !.pc = IF pc = "thrown" THEN "inner"
                                   ELSE IF impl = "simple" THEN "update"
                                   ELSE "save"]
    /\ UNCHANGED answerRest

\* await scheduleService.saveSchedule(...)
SaveSchedule(ok) ==
    /\ chat.pc = "save"
    /\ chat' = [chat EXCEPT !.pc = IF ok THEN "send" ELSE "inner"]
    /\ UNCHANGED answerRest

\* await slackService.sendScheduleMessage(...), which rethrows
SendScheduleMessage(ok) ==
    /\ chat.pc = "send"
    /\ chat' = IF ok THEN [chat EXCEPT !.pc = "delete", !.schedules = @ + 1]
               ELSE [chat EXCEPT !.pc = "inner"]
    /\ UNCHANGED answerRest

\* chat.delete of the 'thinking' message at the end of the try block
DeleteThinking(ok) ==
    /\ chat.pc = "delete"
    /\ chat' = IF ok THEN [chat EXCEPT !.pc = "done", !.placeholder = "deleted"]
               ELSE [chat EXCEPT !.pc = "inner"]
    /\ UNCHANGED answerRest

\* chat.update of the 'thinking' message with the schedule message
UpdateThinking(ok) ==
    /\ chat.pc = "update"
    /\ chat' = IF ok THEN [chat EXCEPT !.pc = "done", !.placeholder = "schedule",
                                       !.schedules = @ + 1]
               ELSE [chat EXCEPT !.pc = "inner"]
    /\ UNCHANGED answerRest

\* catch (nimError): the services handler deletes the 'thinking' message
\* and then sends the error message; the simple handler updates the
\* 'thinking' message with the error message
CatchNimError(ok, okSend) ==
    /\ chat.pc = "inner"
    /\ chat' = IF ~ok THEN [chat EXCEPT !.pc = "outer"]
               ELSE IF impl = "simple"
               THEN [chat EXCEPT !.pc = "done", !.placeholder = "error",
                                 !.errorsSent = @ + 1]
               ELSE [chat EXCEPT !.pc = "done", !.placeholder = "deleted",
                                 !.errorsSent = IF okSend THEN @ + 1 ELSE @]
    /\ UNCHANGED answerRest

\* catch (error): sendErrorMessage in the services handler, say(error),
\* whose rejection leaves the handler, in the simple one
CatchError(ok) ==
    /\ chat.pc = "outer"
    /\ chat' = IF ok THEN [chat EXCEPT !.pc = "done", !.errorsSent = @ + 1]
               ELSE [chat EXCEPT !.pc = "done", !.thrown = (impl = "simple")]
    /\ UNCHANGED answerRest

\* commands that are rejected, answered with the help, and accepted
MaxAnswerLen == 5
AnswerTexts == {t \in Texts : Len(t) <= MaxAnswerLen}

AnswerInit ==
    /\ impl \in Impls
    /\ env = EnvUnset
    /\ maxRetries = loadMaxRetries(impl, env)
    /\ ClientIdle
    /\ text \in AnswerTexts
    /\ cmd = NoCmd
    /\ calls = NoCalls
    /\ message = NoMessage
    /\ chat = [NoChat EXCEPT !.pc = "start"]
    /\ db = NoDb

\* the steps of the handler after it has read the command
AnswerSteps ==
    \/ \E ok \in BOOLEAN : Answer(ok)
    \/ \E ok \in BOOLEAN : SayThinking(ok)
    \/ Generate
    \/ \E e \in HandlerErrors : PostRejects(e)
    \/ \E r \in HandlerResponses : PostResolves(r)
    \/ DelayElapses
    \/ GenerateEnds
    \/ \E ok \in BOOLEAN : SaveSchedule(ok)
    \/ \E ok \in BOOLEAN : SendScheduleMessage(ok)
    \/ \E ok \in BOOLEAN : DeleteThinking(ok)
    \/ \E ok \in BOOLEAN : UpdateThinking(ok)
    \/ \E ok \in BOOLEAN, okSend \in BOOLEAN : CatchNimError(ok, okSend)
    \/ \E ok \in BOOLEAN : CatchError(ok)

AnswerNext == ScheduleCommand \/ AnswerSteps

AnswerSpec == AnswerInit /\ [][AnswerNext]_vars

\* once the command is read the handler runs on: every pending step is
\* eventually taken
AnswerFairSpec == AnswerSpec /\ WF_vars(AnswerSteps)

\* markTaskComplete alone, over the message bodies
ClickInit ==
    /\ impl = "simple"
    /\ env = EnvUnset
    /\ maxRetries = loadMaxRetries(impl, env)
    /\ ClientIdle
    /\ text = <<>>
    /\ cmd = NoCmd
    /\ calls = NoCalls
    /\ chat = NoChat
    /\ db = NoDb
    /\ \E body \in Bodies : message = [NoMessage EXCEPT !.blocks = body]

ClickNext == \E v \in ClickValues, ok \in BOOLEAN : MarkTaskComplete(v, ok)

ClickSpec == ClickInit /\ [][ClickNext]_vars

\* the reply handling alone, over replies with every kind of fence
ReplyNext ==
    \/ \E tf \in Timeframes : GenerateSchedule(tf)
    \/ \E r \in RichResponses : PostResolves(r)

ReplySpec == Init /\ [][ReplyNext]_vars

\* every awaited post ends and every awaited delay elapses
AttemptEnds == (\E e \in Errors : PostRejects(e)) \/ (\E r \in Responses : PostResolves(r))
FairSpec == Spec /\ WF_vars(AttemptEnds) /\ WF_vars(DelayElapses)

\* ---------------------------------------------------------- saveSchedule
\* The rows of one saveSchedule call: the users row, the schedules row and
\* the tasks row of item k (1..n).
UserRow == -1
ScheduleRow == 0

saveRest == <<confVars, clientVars, cmdVars, calls, message, chat>>

\* client.query(q) was issued; its rejection is error number Len(queries)
Issued(q) == [db EXCEPT !.queries = Append(@, q)]
\* a statement of the try block rejected: control goes to the catch block
Failed(q) == [Issued(q) EXCEPT !.pc = "rollback", !.failure = Len(db.queries) + 1]

\* const client = await this.pool.connect(), outside the try block
Connect(ok) ==
    /\ db.pc = "connect"
    /\ db' = IF ok THEN [db EXCEPT !.pc = "begin"]
             ELSE [db EXCEPT !.pc = "done", !.thrown = 1]
    /\ UNCHANGED saveRest

\* await client.query('BEGIN')
Begin(ok) ==
    /\ db.pc = "begin"
    /\ db' = IF ok THEN [Issued("BEGIN") EXCEPT !.pc = "select"] ELSE Failed("BEGIN")
    /\ UNCHANGED saveRest

\* ensureUserExists: the SELECT, which finds the user or not
SelectUser(ok, found) ==
    /\ db.pc = "select"
    /\ db' = IF ok THEN [Issued("SELECT") EXCEPT !.pc = IF found THEN "touch" ELSE "create"]
             ELSE Failed("SELECT")
    /\ UNCHANGED saveRest

\* ensureUserExists: UPDATE users SET last_active_at of a user found
TouchUser(ok) ==
    /\ db.pc = "touch"
    /\ db' = IF ok THEN [Issued("UPDATE") EXCEPT !.pc = "insert"] ELSE Failed("UPDATE")
    /\ UNCHANGED saveRest

\* ensureUserExists: INSERT INTO users of a user not found
CreateUser(ok) ==
    /\ db.pc = "create"
    /\ db' = IF ok THEN [Issued("INSERT users") EXCEPT !.pc = "insert",
                                                      !.pending = @ \cup {UserRow}]
             ELSE Failed("INSERT users")
    /\ UNCHANGED saveRest

\* INSERT INTO schedules
InsertSchedule(ok) ==
    /\ db.pc = "insert"
    /\ db' = IF ok THEN [Issued("INSERT schedules") EXCEPT
                            !.pc = IF db.tasks = 0 THEN "commit" ELSE "task",
                            !.pending = @ \cup {ScheduleRow}]
             ELSE Failed("INSERT schedules")
    /\ UNCHANGED saveRest

\* saveTask of the next item of generatedSchedule.schedule
SaveTask(ok) ==
    /\ db.pc = "task"
    /\ db' = IF ok THEN [Issued("INSERT tasks") EXCEPT
                            !.pc = IF db.saved + 1 = db.tasks THEN "commit" ELSE "task",
                            !.saved = @ + 1,
                            !.pending = @ \cup {db.saved + 1}]
             ELSE Failed("INSERT tasks")
    /\ UNCHANGED saveRest

\* await client.query('COMMIT'); return schedule
Commit(ok) ==
    /\ db.pc = "commit"
    /\ db' = IF ok THEN [Issued("COMMIT") EXCEPT !.pc = "release",
                                                !.committed = db.pending,
                                                !.pending = {}]
             ELSE Failed("COMMIT")
    /\ UNCHANGED saveRest

\* catch (error) { await client.query('ROLLBACK'); ...; throw error }: when
\* the ROLLBACK rejects, its error leaves the catch block instead
Rollback(ok) ==
    /\ db.pc = "rollback"
    /\ db' = IF ok THEN [Issued("ROLLBACK") EXCEPT !.pc = "release", !.pending = {},
                                                  !.thrown = db.failure]
             ELSE [Issued("ROLLBACK") EXCEPT !.pc = "release",
                                             !.thrown = Len(db.queries) + 1]
    /\ UNCHANGED saveRest

\* finally { client.release() }
Release ==
    /\ db.pc = "release"
    /\ db' = [db EXCEPT !.pc = "done", !.released = @ + 1]
    /\ UNCHANGED saveRest

\* one saveSchedule call for a generated schedule of up to MaxItems items
SaveInit ==
    /\ impl = "services"
    /\ env = EnvUnset
    /\ maxRetries = loadMaxRetries(impl, env)
    /\ ClientIdle
    /\ text = <<>>
    /\ cmd = NoCmd
    /\ calls = NoCalls
    /\ message = NoMessage
    /\ chat = NoChat
    /\ \E n \in 0..MaxItems : db = [NoDb EXCEPT !.pc = "connect", !.tasks = n]

SaveNext ==
    \/ \E ok \in BOOLEAN : Connect(ok)
    \/ \E ok \in BOOLEAN : Begin(ok)
    \/ \E ok \in BOOLEAN, found \in BOOLEAN : SelectUser(ok, found)
    \/ \E ok \in BOOLEAN : TouchUser(ok)
    \/ \E ok \in BOOLEAN : CreateUser(ok)
    \/ \E ok \in BOOLEAN : InsertSchedule(ok)
    \/ \E ok \in BOOLEAN : SaveTask(ok)
    \/ \E ok \in BOOLEAN : Commit(ok)
    \/ \E ok \in BOOLEAN : Rollback(ok)
    \/ Release

SaveSpec == SaveInit /\ [][SaveNext]_vars

\* =================================================================== claims
Done == pc \in {"returned", "thrown"}

Last(q) == q[Len(q)]

\* the classification stated by the specification: HTTP 408, 429, 5xx,
\* connection reset and timeout are retryable, everything else is fatal
ClaimRetryable(e) ==
    \/ e.status \in {408, 429}
    \/ (e.status >= 500 /\ e.status <= 599)
    \/ e.code \in {"ECONNRESET", "ECONNABORTED"}

\* the reply is plain JSON whose schedule array has only complete items
ReplyComplete(r) ==
    /\ r.choices
    /\ r.content.shape = "array"
    /\ \A k \in 1..Len(r.content.items) :
          /\ r.content.items[k].task \notin {Undefined, ""}
          /\ r.content.items[k].start_time # NoTime
          /\ r.content.items[k].end_time # NoTime

C2_FatalAborts ==
    \A k \in 1..Len(errors) :
        ~ClaimRetryable(errors[k])
        => /\ k = Len(errors)
           /\ pc = "thrown"
           /\ httpCalls = k
           /\ Len(delays) = k - 1

\* C2 witness: HTTP 401 after one retryable failure, with budget remaining
C2_Witness ==
    /\ pc = "thrown"
    /\ Len(errors) = 2
    /\ errors[1].status = 500
    /\ errors[2].status = 401
    /\ httpCalls = 2
    /\ maxRetries >= 2

\* C3: when two failures were retried and the third call delivered a reply,
\* exactly 3 calls were issued and the delays were Base and 2 x Base; when
\* that reply is a complete schedule in plain JSON, the call returns the
\* schedule of the reply and not the fallback schedule.
C3_TwoFailuresThenSuccess ==
    (/\ Done
     /\ Len(errors) = 2
     /\ \A k \in 1..2 : verdicts[k] = "retry"
     /\ response # NoResponse
     /\ response.choices)
    => /\ httpCalls = 3
       /\ delays = <<Base, 2 * Base>>
       /\ (ReplyComplete(response) /\ response.content.fence = "none")
          => /\ pc = "returned"
             /\ result.kind = "schedule"
             /\ result.items = response.content.items
             /\ result.diagnostic = ""

\* C3 witness: HTTP 500 twice, then a reply with one complete item
C3_Witness ==
    /\ pc = "returned"
    /\ Len(errors) = 2
    /\ errors[1].status = 500
    /\ errors[2].status = 500
    /\ httpCalls = 3
    /\ response.choices
    /\ response.content.items = <<GoodItem>>
    /\ result.items = <<GoodItem>>

\* C4: the delay inserted before the k-th retry is Base x 2^(k-1), for every
\* k up to maxRetries.
C4_ExponentialDelay ==
    \A k \in 1..Len(delays) : delays[k] = Base * Pow2(k - 1)

\* C5: the catch block treats an error as retryable exactly when it is HTTP
\* 408, 429, 5xx, a connection reset or a timeout.
C5_Classification ==
    \A k \in 1..Len(errors) :
        verdicts[k] # "exhausted"
        => ((verdicts[k] = "retry") <=> ClaimRetryable(errors[k]))

\* C6: when the call fails because the retry budget is exhausted, the error
\* thrown to the caller carries the message of the error of the last attempt.
C6_LastCause ==
    (pc = "thrown" /\ Len(errors) > 0 /\ Last(verdicts) = "exhausted")
    => /\ result.kind = "error"
       /\ result.message[2] =
             <<Last(errors).name, Last(errors).status, Last(errors).code>>

\* C6 witness: budget exhausted after failures whose first and last differ
C6_Witness ==
    /\ pc = "thrown"
    /\ Len(errors) = maxRetries + 1
    /\ Last(verdicts) = "exhausted"
    /\ errors[1] # Last(errors)
    /\ result.kind = "error"

\* a timeout of the simple variant is never treated as fatal, and the number
\* of retries, timeouts included, stays within the one budget
TimeoutUsesBudget ==
    /\ \A k \in 1..Len(errors) :
          (impl = "simple" /\ errors[k].code = "ECONNABORTED")
          => verdicts[k] \in {"retry", "exhausted"}
    /\ Len(delays) = Cardinality({k \in 1..Len(verdicts) : verdicts[k] = "retry"})
    /\ Len(delays) <= maxRetries

\* C7: when every attempt ends and every delay elapses, a call that was
\* started eventually returns a schedule or throws; a timeout is retried out
\* of the same budget as other retryable errors.
C7_Terminates ==
    /\ (pc \in {"posting", "delaying"}) ~> Done
    /\ []TimeoutUsesBudget

\* C7 witness: a call that ended after a timeout was retried
C7_Witness ==
    /\ Done
    /\ impl = "simple"
    /\ Len(errors) >= 2
    /\ errors[1].code = "ECONNABORTED"
    /\ verdicts[1] = "retry"

\* C8: for a reply that is not valid JSON or lacks a schedule array, the
\* returned schedule has total tasks 1, one item that spans the requested
\* window, total duration end - start, and a non-empty diagnostic.
C8_FallbackSpansWindow ==
    (/\ pc = "returned"
     /\ response.choices
     /\ response.content.shape \in {"notjson", "null", "noschedule", "nonarray"})
    => /\ result.total_tasks = 1
       /\ Len(result.items) = 1
       /\ result.items[1].start_time = timeframe.start
       /\ result.items[1].end_time = timeframe.end
       /\ result.total_duration = timeframe.end - timeframe.start
       /\ result.diagnostic # ""

\* C9: when the post resolved with a reply, the call returns a schedule and
\* never throws; a reply that is unparseable, lacks a schedule array or has
\* an incomplete item yields the fallback schedule.
C9_NeverRaises ==
    (Done /\ response # NoResponse /\ response.choices)
    => /\ pc = "returned"
       /\ result.kind = "schedule"
       /\ (~ReplyComplete(response) => result = createFallbackSchedule)

\* C10: (simple variant, parseScheduleResponse) when an item of the reply's
\* schedule array lacks a task label, a start time or an end time, the
\* fallback schedule is returned; the schedule of the reply is returned only
\* when every item has all three.
C10_IncompleteItemRejected ==
    (/\ impl = "simple"
     /\ pc = "returned"
     /\ response.content.shape = "array")
    => IF ReplyComplete(response)
       THEN result.items = response.content.items /\ result.diagnostic = ""
       ELSE result = createFallbackSchedule

\* C10 witness: the second item of the reply lacks its end time
C10_Witness ==
    /\ impl = "simple"
    /\ pc = "returned"
    /\ response.content.shape = "array"
    /\ Len(response.content.items) = 2
    /\ response.content.items[1] = GoodItem
    /\ response.content.items[2].end_time = NoTime
    /\ result = createFallbackSchedule

\* C11: (simple variant) a reply that is valid schedule JSON wrapped in a
\* code fence yields the schedule of that JSON: the fence is stripped and
\* the parsed content is returned with its items unchanged.
C11_FencedReplyUnchanged ==
    (/\ impl = "simple"
     /\ pc = "returned"
     /\ response.content.fence # "none"
     /\ ReplyComplete(response))
    => /\ result.kind = "schedule"
       /\ result.items = response.content.items
       /\ result.diagnostic = ""

\* ------------------------------------------------- reading a command text
\* The quoted strings of a text, read off the positions of its double
\* quotes: the i-th quoted string stands between the (2i-1)-th and the
\* 2i-th quote.
QuoteAt(str) == {k \in 1..Len(str) : str[k] = Quote}
Nth(S, n) == CHOOSE x \in S : Cardinality({y \in S : y <= x}) = n
Balanced(str) == Cardinality(QuoteAt(str)) % 2 = 0
QuotedCount(str) == Cardinality(QuoteAt(str)) \div 2
QuotedString(str, i) ==
    SubSeq(str, Nth(QuoteAt(str), 2 * i - 1) + 1, Nth(QuoteAt(str), 2 * i) - 1)
Outside(str) ==
    {k \in 1..Len(str) :
        /\ str[k] # Quote
        /\ Cardinality({q \in QuoteAt(str) : q < k}) % 2 = 0}

\* the first unquoted token, trimmed; <<>> if there is none
FirstUnquoted(str) ==
    IF Outside(str) = {} THEN <<>>
    ELSE LET b == Min(Outside(str))
             e == Max({k \in b..Len(str) : \A j \in b..k : j \in Outside(str)})
         IN  trim(SubSeq(str, b, e))

\* a quoted string with something to do in it
HasDescription(str) ==
    trim(IF str # <<>> /\ str[Len(str)] \in ParamGroups
         THEN SubSeq(str, 1, Len(str) - 1) ELSE str) # <<>>

AllDescribed(str) ==
    \A i \in 1..QuotedCount(str) : HasDescription(QuotedString(str, i))

\* the timeframe words that the deployed validateTimeframe lets pass
PassingTimeframes ==
    IF impl = "simple" THEN TimeframeWords \ OtherWords ELSE PresetSpellings

\* timeframe "task" ... "task": a timeframe of the given words, then
\* N >= 1 quoted strings set apart by blanks
FormedOn(str, words) ==
    /\ str # <<>>
    /\ str[1] \in words
    /\ Balanced(str)
    /\ QuotedCount(str) >= 1
    /\ \A k \in Outside(str) \ {1} : str[k] = Blank

\* a passing timeframe followed by quoted strings with a description
Formed(str) == FormedOn(str, PassingTimeframes) /\ AllDescribed(str)

Handled == cmd.status # "none"

TasksInOrder ==
    /\ Len(cmd.tasks) = QuotedCount(text)
    /\ \A i \in 1..QuotedCount(text) :
          cmd.tasks[i] = parseTask(QuotedString(text, i))

\* C13: a command of a valid timeframe followed by N well-formed quoted
\* tasks is parsed into exactly N task entries, and the i-th entry is the
\* parse of the i-th quoted string.
C13_TasksInOrder ==
    (Handled /\ Formed(text)) => (cmd.status = "accepted" /\ TasksInOrder)

C13_Witness ==
    /\ Handled
    /\ Formed(text)
    /\ cmd.status = "accepted"
    /\ Len(cmd.tasks) = 3
    /\ cmd.tasks[1] # cmd.tasks[2]

\* C14: the timeframe candidate is the first unquoted token and every
\* quoted token becomes a task wherever it stands, a quoted first token
\* included: a command whose first unquoted token is a valid timeframe and
\* whose quoted tokens are well-formed tasks is accepted with that
\* timeframe and with all of its quoted tokens as tasks.
C14_QuotedAnywhere ==
    (/\ Handled
     /\ Balanced(text)
     /\ QuotedCount(text) >= 1
     /\ AllDescribed(text)
     /\ IsWordOf(FirstUnquoted(text), PassingTimeframes))
    => /\ cmd.status = "accepted"
       /\ cmd.timeframe = FirstUnquoted(text)
       /\ TasksInOrder

\* zero double-quoted tokens: fewer than two quotes
NoQuotedToken(str) == Cardinality(QuoteAt(str)) < 2
BlankOnly(str) == trim(str) = <<>>
QuotesOnly(str) == \A k \in 1..Len(str) : str[k] = Quote

\* C15 as stated: (simple variant) a non-empty command without a quoted
\* token is rejected with the 'no tasks' error, an empty or blank one with
\* the 'empty input' error, and neither produces a task list.
C15_NoTasksError ==
    (Handled /\ impl = "simple" /\ NoQuotedToken(text))
    => /\ cmd.status = "rejected"
       /\ cmd.tasks = <<>>
       /\ cmd.error = IF BlankOnly(text) THEN ErrEmptyInput ELSE ErrNoTasks

\* C15 amended: (simple variant) a command without a quoted token is
\* rejected and produces no task list; the error is 'empty input' for an
\* empty or blank command, 'invalid format' for a command that yields no
\* token at all (a lone double quote), and 'no tasks' otherwise.
C15_NoQuotedTokenRejected ==
    (Handled /\ impl = "simple" /\ NoQuotedToken(text))
    => /\ cmd.status = "rejected"
       /\ cmd.tasks = <<>>
       /\ cmd.error = IF BlankOnly(text) THEN ErrEmptyInput
                      ELSE IF QuotesOnly(text) THEN ErrInvalidFormat
                      ELSE ErrNoTasks

C15_Witness ==
    /\ Handled
    /\ impl = "simple"
    /\ text = <<Quote>>
    /\ cmd.error = ErrInvalidFormat

\* ------------------------------------------------- reading a timeframe
RangeWords == AmPmRanges \cup ClockRanges \cup MixedRanges

\* the window a timeframe word denotes, in minutes after midnight
Window(w) ==
    CASE w \in {"9AM-5PM", "9am-5pm", "09:00-17:00", "9:00 AM - 5:00 PM"} ->
            [startTime |-> 540, endTime |-> 1020]
      [] w \in {"5PM-9AM", "17:00-09:00"} -> [startTime |-> 1020, endTime |-> 540]
      [] w = "9AM-9AM" -> [startTime |-> 540, endTime |-> 540]
      [] w = "09:00-09:30" -> [startTime |-> 540, endTime |-> 570]
      [] w = "09:00-10:00" -> [startTime |-> 540, endTime |-> 600]
      [] w = "06:00-22:00" -> [startTime |-> 360, endTime |-> 1320]
      [] w = "05:00-22:00" -> [startTime |-> 300, endTime |-> 1320]
      [] w \in {"morning", "MORNING"} -> [startTime |-> 540, endTime |-> 720]
      [] w = "afternoon" -> [startTime |-> 780, endTime |-> 1020]
      [] w \in {"evening", "Evening"} -> [startTime |-> 1080, endTime |-> 1260]
      [] w \in {"workday", "business hours", "Business Hours"} ->
            [startTime |-> 540, endTime |-> 1020]

Duration(w) == Window(w).endTime - Window(w).startTime

\* a command of a timeframe word with a window and described tasks
Windowed(str) ==
    FormedOn(str, RangeWords \cup PresetSpellings) /\ AllDescribed(str)

\* C16: every accepted timeframe starts before it ends; a timeframe whose
\* end is not after its start (5PM-9AM, 17:00-09:00) is rejected with the
\* error about the order of the times.
C16_StartBeforeEnd ==
    (Handled /\ Windowed(text))
    => /\ cmd.status = "accepted" =>
              Window(text[1]).startTime < Window(text[1]).endTime
       /\ Window(text[1]).startTime >= Window(text[1]).endTime =>
              cmd.status = "rejected" /\ cmd.error = ErrOrder

\* C17: every accepted timeframe lasts between 60 and 960 minutes; a
\* shorter one is rejected as too short and a longer one as too long.
C17_DurationBounds ==
    (/\ Handled
     /\ Windowed(text)
     /\ Window(text[1]).startTime < Window(text[1]).endTime)
    => /\ cmd.status = "accepted" =>
              Duration(text[1]) \in MinDuration..MaxDuration
       /\ Duration(text[1]) < MinDuration =>
              cmd.status = "rejected" /\ cmd.error = ErrTooShort
       /\ Duration(text[1]) > MaxDuration =>
              cmd.status = "rejected" /\ cmd.error = ErrTooLong

\* C18: (services variant) a timeframe that matches one of the format
\* matchers is normalized to its offsets and is not reported as a format
\* failure; 9AM-5PM is accepted with the offsets 540 and 1020.
C18_MatchedIsNormalized ==
    (Handled /\ impl = "services" /\ FormedOn(text, RangeWords)
        /\ AllDescribed(text))
    => /\ cmd.error # ErrTimeframeFormat
       /\ cmd.status = "accepted" => cmd.normalized = Window(text[1])
       /\ text[1] = "9AM-5PM" =>
              /\ cmd.status = "accepted"
              /\ cmd.normalized = [startTime |-> 540, endTime |-> 1020]

FirstUndescribed(str) ==
    LET bad == {i \in 1..QuotedCount(str) : ~HasDescription(QuotedString(str, i))}
    IN  IF bad = {} THEN 0 ELSE Min(bad)

\* C20: a quoted task whose description is empty or blank is rejected with
\* an error that names the position of the task, and no accepted command
\* contains a task with an empty description.
C20_EmptyDescriptionRejected ==
    Handled =>
        /\ cmd.status = "accepted" =>
              \A k \in 1..Len(cmd.tasks) : cmd.tasks[k].description # <<>>
        /\ (FormedOn(text, PassingTimeframes) /\ FirstUndescribed(text) # 0) =>
              /\ cmd.status = "rejected"
              /\ cmd.error = ErrDescription
              /\ cmd.task = FirstUndescribed(text)

\* ------------------------------------------------------ the whole handler
\* timeframe words whose window starts before it ends and lasts between
\* MinDuration and MaxDuration minutes
ValidWindows ==
    {w \in RangeWords \cup PresetSpellings :
        /\ Window(w).startTime < Window(w).endTime
        /\ Duration(w) \in MinDuration..MaxDuration}

\* parsing, timeframe validation and task validation all succeed: there is
\* a quoted task, the timeframe is a valid window, every task is described
ValidCommand(str) ==
    /\ ~BlankOnly(str)
    /\ QuotedCount(str) >= 1
    /\ IsWordOf(FirstUnquoted(str), ValidWindows)
    /\ AllDescribed(str)

\* C12: a backend call happens only after parsing, timeframe validation and
\* task validation have all succeeded; when one of them fails, no backend
\* call is made and an error is reported to the user.
C12_CallOnlyAfterValidation ==
    /\ httpCalls > 0 => (cmd.status = "accepted" /\ ValidCommand(text))
    /\ (Handled /\ ~ValidCommand(text)) =>
          /\ httpCalls = 0
          /\ cmd.status = "rejected"
          /\ cmd.error # NoError

\* ---------------------------------------------------- delays and attempts
\* C29: within one schedule-generation call one backoff delay lies between
\* every two consecutive backend attempts, none before the first attempt
\* and none after the last: while a delay is awaited there are as many
\* delays as attempts, otherwise one fewer.
C29_OneDelayBetweenAttempts ==
    /\ pc = "idle" => (httpCalls = 0 /\ delays = <<>>)
    /\ pc = "delaying" => Len(delays) = httpCalls
    /\ pc \in {"posting", "returned", "thrown"} => Len(delays) = httpCalls - 1

C29_Witness ==
    /\ pc = "thrown"
    /\ httpCalls = 3
    /\ Len(delays) = 2
    /\ verdicts = <<"retry", "retry", "fatal">>

\* C30: the configured retry count is honoured for every non-negative
\* integer: with NIM_MAX_RETRIES = 0 exactly one attempt is made and never
\* a retry, with NIM_MAX_RETRIES = n > 0 at most n + 1 attempts.
C30_ConfiguredRetriesHonoured ==
    env # EnvUnset =>
        /\ httpCalls <= env + 1
        /\ env = 0 => delays = <<>>

\* -------------------------------------------------------- number of tasks
\* C21: every request that reaches the backend carries between 1 and 20
\* tasks: a command of more than 20 tasks is rejected before any backend
\* call, and a command of 20 or fewer tasks is not rejected for the number
\* of its tasks.
C21_TaskCountBounds ==
    /\ httpCalls > 0 => Len(cmd.tasks) \in 1..20
    /\ (Handled /\ QuotedCount(text) > 20) =>
          (cmd.status = "rejected" /\ httpCalls = 0)
    /\ (Handled /\ QuotedCount(text) \in 1..20) =>
          cmd.error \notin {ErrTooManyTasks, ErrTooManyInput}

\* ------------------------------------------------------ items and window
\* C22: (simple variant) every item of every returned schedule, derived
\* from the backend or fallback, ends after it starts and lies inside the
\* requested window: window start <= item start < item end <= window end.
C22_ItemsInsideWindow ==
    (impl = "simple" /\ pc = "returned" /\ result.kind = "schedule")
    => \A k \in 1..Len(result.items) :
          /\ timeframe.start <= result.items[k].start_time
          /\ result.items[k].start_time < result.items[k].end_time
          /\ result.items[k].end_time <= timeframe.end

\* ------------------------------------------------------ concurrent calls
\* a call with the outcomes sc of its attempts, run alone: the number of
\* backend calls, the delays and how it ends
RECURSIVE Alone(_, _, _, _, _, _)
Alone(i, max, sc, a, n, ds) ==
    IF sc[n] = Replied THEN [httpCalls |-> n, delays |-> ds, pc |-> "returned"]
    ELSE IF ShouldRetry(i, a, max, sc[n])
    THEN Alone(i, max, sc, a + 1, n + 1, Append(ds, RetryDelay(i, a)))
    ELSE [httpCalls |-> n, delays |-> ds, pc |-> "thrown"]

\* C23: two schedule-generation calls that run concurrently on the shared
\* client do not interact: each has its own attempt counter, and the number
\* of backend calls, the delays and the outcome of a call are under every
\* interleaving what they are when the call runs alone.
C23_CallsDoNotInteract ==
    \A c \in Callers :
        calls[c].pc \in {"returned", "thrown"} =>
            [httpCalls |-> calls[c].httpCalls, delays |-> calls[c].delays,
             pc |-> calls[c].pc]
            = Alone(impl, maxRetries, calls[c].script, FirstAttempt(impl), 1, <<>>)

C23_Witness ==
    /\ calls[1].pc = "thrown"
    /\ calls[1].httpCalls = 3
    /\ calls[2].pc = "returned"
    /\ calls[2].httpCalls = 2
    /\ calls[2].overlapped

\* -------------------------------------------------------- task completion
\* the blocks of bs with block i completed
WithCompleted(bs, i) ==
    [j \in 1..Len(bs) |->
        IF j = i
        THEN [bs[j] EXCEPT !.action = "task_completed", !.value = Completed,
                           !.struck = TRUE]
        ELSE bs[j]]

\* the first block of bs with a complete_task button of value v, 0 if none
FirstWithValue(bs, v) ==
    IF \E i \in 1..Len(bs) : bs[i].action = "complete_task" /\ bs[i].value = v
    THEN CHOOSE i \in 1..Len(bs) :
            /\ bs[i].action = "complete_task" /\ bs[i].value = v
            /\ \A j \in 1..(i - 1) :
                  ~(bs[j].action = "complete_task" /\ bs[j].value = v)
    ELSE 0

\* C24: markTaskComplete changes exactly one block, the first complete_task
\* block whose button value is the clicked value: its button becomes the
\* completed button and its text is struck through; every other block is
\* left unchanged; no message update is sent when no block matches; and it
\* never throws to its caller.
C24_MarksFirstMatch ==
    message.clicked # NoClick =>
        /\ ~message.thrown
        /\ message.sent = (FirstWithValue(message.before, message.clicked) # 0)
        /\ (message.sent /\ message.blocks # message.before) =>
              message.blocks =
                  WithCompleted(message.before,
                                FirstWithValue(message.before, message.clicked))

\* the items whose block is shown as completed
ShownCompleted ==
    {message.blocks[i].item :
        i \in {j \in 1..Len(message.blocks) :
                  message.blocks[j].action = "task_completed"}}

\* C25: after any sequence of task-completion clicks on one schedule
\* message the blocks shown as completed are exactly the blocks of the
\* tasks whose click was carried out: a completed task never makes a later
\* click on another task mark the wrong block.
C25_CompletedAreClicked == ShownCompleted = message.done

\* C26: for one /schedule command the user receives one terminal
\* response, the schedule or one error or help message, and never a
\* schedule message together with an error message, whichever step fails.
C26_OneTerminalResponse ==
    chat.schedules + chat.errorsSent + chat.helps <= 1

\* C27: once the 'thinking' message has been posted, the handler eventually
\* deletes it or replaces it with the schedule or with an error message.
C27_PlaceholderRemoved ==
    (chat.placeholder = "posted") ~> (chat.placeholder # "posted")

\* the INSERT statements among the queries issued
InsertsIssued ==
    {i \in 1..Len(db.queries) :
        db.queries[i] \in {"INSERT users", "INSERT schedules", "INSERT tasks"}}

\* C28: saveSchedule issues BEGIN before any insert, commits the schedule
\* row and all its task rows together or not at all, answers every failure
\* after BEGIN with a ROLLBACK and throws that failure to the caller, and
\* releases the pooled client exactly once.
C28_SaveScheduleAtomic ==
    /\ InsertsIssued # {} => db.queries[1] = "BEGIN"
    /\ db.committed = {} \/ ({ScheduleRow} \cup (1..db.tasks)) \subseteq db.committed
    /\ db.released <= 1
    /\ db.pc = "done" /\ db.queries # <<>> => db.released = 1
    /\ db.pc = "done" /\ db.failure > 1 =>
          /\ \E i \in 1..Len(db.queries) : db.queries[i] = "ROLLBACK"
          /\ db.thrown = db.failure

====
